---- MODULE Spec2Model ----
(***************************************************************************)
(* AngiDay meal planner: the relational schema with its foreign keys and   *)
(* row level security policies (the initial-schema migration), and the     *)
(* session gate of App.tsx.  Every SQL statement a client issues runs in   *)
(* its own transaction, so a statement together with the referential       *)
(* actions it triggers is one step.                                        *)
(***************************************************************************)
EXTENDS Integers, FiniteSets, Sequences, TLC

VARIABLES
  db,               \* the tables of the store: table name -> set of rows
  response,         \* the last statement the store ran, and its outcome
  inflight,         \* UPDATE requests sent to the store and not yet run
  committed,        \* the UPDATE requests the store has run, in commit order
  providerSession,  \* the identity provider's current session (its user)
  session,          \* App: useState<Session | null>
  currentView,      \* App: useState<'recipes' | 'profile'>
  getSessionCall,   \* App: the promise of supabase.auth.getSession()
  notifications,    \* onAuthStateChange events not yet delivered to App
  profile,          \* UserProfile: useState<Profile | null>, null being {}
                    \* and a Profile p being {p}
  loading,          \* UserProfile: useState(true)
  replies           \* store responses not yet delivered to UserProfile

storeVars == <<db, response>>

requestVars == <<inflight, committed>>

profileVars == <<profile, loading, replies>>

appVars == <<providerSession, session, currentView, getSessionCall,
             notifications, profile, loading, replies>>

vars == <<db, response, inflight, committed, providerSession, session,
          currentView, getSessionCall, notifications, profile, loading,
          replies>>

(***************************************************************************)
(* Bounds                                                                  *)
(***************************************************************************)
\* number of distinct primary key values per table
NumIds == 2
\* rows held by all tables together
MaxRows == 3
\* UPDATE requests sent concurrently
MaxRequests == 3
\* auth state changes of the identity provider
MaxEvents == 3
\* columns set by one UPDATE
MaxPayloadCols == 1

(***************************************************************************)
(* Identities and values                                                   *)
(***************************************************************************)
\* SQL NULL (a uuid or text column without a value)
NULL == "NULL"

\* rows of auth.users: the identities the provider has issued
Users == {"u1", "u2"}

\* the role that owns the tables (it ran the migration); row level security
\* is ENABLEd, not FORCEd, so it is not subject to the policies, and it
\* carries no JWT: auth.uid() is NULL for it
TableOwner == "postgres"

Callers == Users \cup {TableOwner}

\* auth.uid() of a caller
AuthUid(caller) == IF caller \in Users THEN caller ELSE NULL

\* uuid values
Ids == {ToString(i) : i \in 1..NumIds}

IdOrNull == Ids \cup {NULL}

\* a = b in SQL's three-valued logic, as a WHERE/USING clause sees it:
\* a comparison with NULL is not true
SqlEq(a, b) == a # NULL /\ b # NULL /\ a = b

(***************************************************************************)
(* Tables: the columns that keys, foreign keys and policies read, and one  *)
(* or two data columns where a claim is about updates                      *)
(***************************************************************************)
Tables == {"profiles", "tags", "recipes", "recipe_ingredients", "recipe_tags",
           "meal_plans", "meal_plan_items", "shopping_lists",
           "shopping_list_items"}

\* every row a table's column types admit
RowSpace(tbl) ==
  CASE tbl = "profiles" ->
         [id : Users, username : {"ann", "bob"}, full_name : {"A", "B"}]
    [] tbl = "tags" -> [id : Ids, name : {"vegan", "quick"}]
    [] tbl = "recipes" ->
         [id : Ids, user_id : Users \cup {NULL}, is_public : BOOLEAN]
    [] tbl = "recipe_ingredients" -> [id : Ids, recipe_id : IdOrNull]
    [] tbl = "recipe_tags" -> [recipe_id : Ids, tag_id : Ids]
    [] tbl = "meal_plans" -> [id : Ids, user_id : Users \cup {NULL}]
    [] tbl = "meal_plan_items" ->
         [id : Ids, meal_plan_id : IdOrNull, recipe_id : IdOrNull]
    [] tbl = "shopping_lists" ->
         [id : Ids, user_id : Users \cup {NULL}, meal_plan_id : IdOrNull]
    [] tbl = "shopping_list_items" ->
         [id : Ids, shopping_list_id : IdOrNull, is_checked : BOOLEAN,
          unit : {"g", "kg"}]

\* PRIMARY KEY columns
PKCols(tbl) == IF tbl = "recipe_tags" THEN {"recipe_id", "tag_id"} ELSE {"id"}

\* tables whose id is DEFAULT gen_random_uuid()
GeneratedId(tbl) == tbl \notin {"profiles", "recipe_tags"}

Restrict(row, cols) == [c \in cols |-> row[c]]

Key(tbl, row) == Restrict(row, PKCols(tbl))

KeySpace(tbl) == {Key(tbl, r) : r \in RowSpace(tbl)}

\* UNIQUE columns other than the primary key
UniqueCols(tbl) == IF tbl = "profiles" THEN {"username"} ELSE {}

\* REFERENCES clauses between the tables of the schema; every one refers to
\* the id column of ref, and one without ON DELETE is NO ACTION
ForeignKeys == {
  [tbl |-> "recipe_ingredients", col |-> "recipe_id", ref |-> "recipes",
   onDelete |-> "CASCADE"],
  [tbl |-> "recipe_tags", col |-> "recipe_id", ref |-> "recipes",
   onDelete |-> "CASCADE"],
  [tbl |-> "recipe_tags", col |-> "tag_id", ref |-> "tags",
   onDelete |-> "CASCADE"],
  [tbl |-> "meal_plan_items", col |-> "meal_plan_id", ref |-> "meal_plans",
   onDelete |-> "CASCADE"],
  [tbl |-> "meal_plan_items", col |-> "recipe_id", ref |-> "recipes",
   onDelete |-> "NO ACTION"],
  [tbl |-> "shopping_lists", col |-> "meal_plan_id", ref |-> "meal_plans",
   onDelete |-> "NO ACTION"],
  [tbl |-> "shopping_list_items", col |-> "shopping_list_id",
   ref |-> "shopping_lists", onDelete |-> "CASCADE"] }

(***************************************************************************)
(* Row level security                                                      *)
(***************************************************************************)
\* CREATE POLICY statements: name, table and command
Policies == {
  [name |-> "Users can view their own profile", tbl |-> "profiles",
   cmd |-> "SELECT"],
  [name |-> "Users can update their own profile", tbl |-> "profiles",
   cmd |-> "UPDATE"],
  [name |-> "Anyone can view public recipes", tbl |-> "recipes",
   cmd |-> "SELECT"],
  [name |-> "Users can create recipes", tbl |-> "recipes", cmd |-> "INSERT"],
  [name |-> "Users can update their own recipes", tbl |-> "recipes",
   cmd |-> "UPDATE"],
  [name |-> "Users can view recipe ingredients", tbl |-> "recipe_ingredients",
   cmd |-> "SELECT"],
  [name |-> "Users can manage their recipe ingredients",
   tbl |-> "recipe_ingredients", cmd |-> "ALL"],
  [name |-> "Anyone can view tags", tbl |-> "tags", cmd |-> "SELECT"],
  [name |-> "Anyone can view recipe tags", tbl |-> "recipe_tags",
   cmd |-> "SELECT"],
  [name |-> "Users can manage their recipe tags", tbl |-> "recipe_tags",
   cmd |-> "ALL"],
  [name |-> "Users can manage their meal plans", tbl |-> "meal_plans",
   cmd |-> "ALL"],
  [name |-> "Users can manage their meal plan items",
   tbl |-> "meal_plan_items", cmd |-> "ALL"],
  [name |-> "Users can manage their shopping lists", tbl |-> "shopping_lists",
   cmd |-> "ALL"],
  [name |-> "Users can manage their shopping list items",
   tbl |-> "shopping_list_items", cmd |-> "ALL"] }

\* EXISTS (SELECT 1 FROM recipes WHERE recipes.id = rid AND recipes.user_id = uid)
OwnsRecipe(rid, uid) ==
  \E r \in db["recipes"] : SqlEq(r.id, rid) /\ SqlEq(r.user_id, uid)

\* EXISTS (SELECT 1 FROM recipes WHERE recipes.id = rid
\*         AND (recipes.is_public = true OR recipes.user_id = uid))
RecipePublicOrOwned(rid, uid) ==
  \E r \in db["recipes"] :
    SqlEq(r.id, rid) /\ (r.is_public = TRUE \/ SqlEq(r.user_id, uid))

OwnsMealPlan(pid, uid) ==
  \E p \in db["meal_plans"] : SqlEq(p.id, pid) /\ SqlEq(p.user_id, uid)

OwnsShoppingList(lid, uid) ==
  \E l \in db["shopping_lists"] : SqlEq(l.id, lid) /\ SqlEq(l.user_id, uid)

\* The USING expression of each policy (WITH CHECK for the INSERT policy), on
\* a row, for auth.uid() = uid.
ViewOwnProfile(row, uid) == SqlEq(uid, row.id)

UpdateOwnProfile(row, uid) == SqlEq(uid, row.id)

\* a policy that forgets the public flag
ViewAnyRecipe(row, uid) == uid # NULL

ViewPublicRecipes(row, uid) == row.is_public = TRUE \/ SqlEq(uid, row.user_id)

\* a WITH CHECK that only asks for a signed-in caller
CreateRecipesForAnyone(row, uid) == uid # NULL

CreateRecipes(row, uid) == SqlEq(uid, row.user_id)

\* the SELECT policy's expression pasted into the UPDATE policy
UpdateVisibleRecipes(row, uid) ==
  row.is_public = TRUE \/ SqlEq(uid, row.user_id)

UpdateOwnRecipes(row, uid) == SqlEq(uid, row.user_id)

ViewRecipeIngredients(row, uid) == RecipePublicOrOwned(row.recipe_id, uid)

\* the view policy's sub-query pasted into the manage policy
ManageVisibleRecipeIngredients(row, uid) ==
  RecipePublicOrOwned(row.recipe_id, uid)

ManageRecipeIngredients(row, uid) == OwnsRecipe(row.recipe_id, uid)

ViewTags(row, uid) == TRUE

ViewRecipeTags(row, uid) == TRUE

ManageRecipeTags(row, uid) == OwnsRecipe(row.recipe_id, uid)

ManageMealPlans(row, uid) == SqlEq(uid, row.user_id)

\* a sub-query that forgets the owner of the plan
ManageItemsOfAnyPlan(row, uid) ==
  \E p \in db["meal_plans"] : SqlEq(p.id, row.meal_plan_id)

ManageMealPlanItems(row, uid) == OwnsMealPlan(row.meal_plan_id, uid)

ManageShoppingLists(row, uid) == SqlEq(uid, row.user_id)

ManageShoppingListItems(row, uid) == OwnsShoppingList(row.shopping_list_id, uid)

PolicyExpr(name, row, uid) ==
  CASE name = "Users can view their own profile" -> ViewOwnProfile(row, uid)
    [] name = "Users can update their own profile" ->
         UpdateOwnProfile(row, uid)
    [] name = "Anyone can view public recipes" -> ViewPublicRecipes(row, uid)
    [] name = "Users can create recipes" -> CreateRecipes(row, uid)
    [] name = "Users can update their own recipes" ->
         UpdateOwnRecipes(row, uid)
    [] name = "Users can view recipe ingredients" ->
         ViewRecipeIngredients(row, uid)
    [] name = "Users can manage their recipe ingredients" ->
         ManageRecipeIngredients(row, uid)
    [] name = "Anyone can view tags" -> ViewTags(row, uid)
    [] name = "Anyone can view recipe tags" -> ViewRecipeTags(row, uid)
    [] name = "Users can manage their recipe tags" ->
         ManageRecipeTags(row, uid)
    [] name = "Users can manage their meal plans" -> ManageMealPlans(row, uid)
    [] name = "Users can manage their meal plan items" ->
         ManageMealPlanItems(row, uid)
    [] name = "Users can manage their shopping lists" ->
         ManageShoppingLists(row, uid)
    [] name = "Users can manage their shopping list items" ->
         ManageShoppingListItems(row, uid)

Commands == {"SELECT", "INSERT", "UPDATE", "DELETE"}

\* policies applied whatever command they were created FOR
PoliciesForAnyCommand(tbl, cmd) == {p \in Policies : p.tbl = tbl}

\* the policies of a table that apply to a command (FOR ALL applies to each);
\* all are PERMISSIVE and TO authenticated
PoliciesFor(tbl, cmd) ==
  {p \in Policies : p.tbl = tbl /\ p.cmd \in {cmd, "ALL"}}

Applicable == [t \in Tables |-> [c \in Commands |-> PoliciesFor(t, c)]]

\* ENABLE ROW LEVEL SECURITY: a row passes for a command when some applicable
\* policy's expression is true of it; with no applicable policy none passes.
\* No policy states WITH CHECK besides the INSERT one, so the same expression
\* screens existing rows (USING) and new rows (WITH CHECK).
Permits(caller, tbl, cmd, row) ==
  \/ caller = TableOwner
  \/ \E p \in Applicable[tbl][cmd] : PolicyExpr(p.name, row, AuthUid(caller))

(***************************************************************************)
(* Statements                                                              *)
(***************************************************************************)
TotalRows == Cardinality(db["profiles"]) + Cardinality(db["tags"])
             + Cardinality(db["recipes"])
             + Cardinality(db["recipe_ingredients"])
             + Cardinality(db["recipe_tags"]) + Cardinality(db["meal_plans"])
             + Cardinality(db["meal_plan_items"])
             + Cardinality(db["shopping_lists"])
             + Cardinality(db["shopping_list_items"])

\* the rows of a table a SELECT by caller returns: the others are filtered out
\* without an error
Visible(caller, tbl) == {r \in db[tbl] : Permits(caller, tbl, "SELECT", r)}

\* the rows a statement with WHERE <primary key> = key works on: the WHERE
\* clause reads the table, so the SELECT policies screen the rows too
Targets(caller, tbl, cmd, key) ==
  {r \in db[tbl] :
     /\ Key(tbl, r) = key
     /\ Permits(caller, tbl, "SELECT", r)
     /\ Permits(caller, tbl, cmd, r)}

\* columns an UPDATE payload may set (the generated id is left alone)
UpdatableCols(tbl) ==
  IF tbl = "recipe_tags" THEN {"recipe_id", "tag_id"}
  ELSE (DOMAIN (CHOOSE r \in RowSpace(tbl) : TRUE)) \ {"id"}

\* partial-field payloads of supabase .update(): a non-empty set of columns
Payloads(tbl) ==
  {Restrict(r, cols) :
     r \in RowSpace(tbl),
     cols \in {cs \in SUBSET UpdatableCols(tbl) :
                Cardinality(cs) \in 1..MaxPayloadCols}}

\* an UPDATE that rewrites the whole row: columns outside the payload fall
\* back to their DEFAULT
ReplaceRow(row, payload) ==
  [c \in DOMAIN row |->
     IF c \in DOMAIN payload THEN payload[c]
     ELSE IF c = "is_checked" THEN FALSE ELSE row[c]]

\* UPDATE ... SET: the payload's columns are overwritten, the others kept
ApplyPayload(row, payload) ==
  [c \in DOMAIN row |-> IF c \in DOMAIN payload THEN payload[c] ELSE row[c]]

\* PRIMARY KEY and UNIQUE: no other row has the same key or unique value
\* (NULLs never collide)
UniqueOK(tbl, row, others) ==
  /\ \A o \in others : Key(tbl, o) # Key(tbl, row)
  /\ \A c \in UniqueCols(tbl) : \A o \in others : ~SqlEq(o[c], row[c])

\* REFERENCES: a non-NULL reference names an existing row of the parent; the
\* referential check reads the parent table as its owner, past its policies
ForeignKeysOK(tbl, row) ==
  \A fk \in ForeignKeys :
    fk.tbl = tbl =>
      \/ row[fk.col] = NULL
      \/ \E p \in db[fk.ref] : p.id = row[fk.col]

\* SELECT * FROM tbl [WHERE <primary key> = key]
Select(caller, tbl, filter) ==
  /\ response' = [cmd |-> "SELECT", tbl |-> tbl, caller |-> caller,
                  arg |-> filter, status |-> "ok", cascaded |-> {},
                  rows |-> {r \in Visible(caller, tbl) :
                              filter = {} \/ Key(tbl, r) \in filter}]
  /\ UNCHANGED db

\* outcome of INSERT INTO tbl VALUES (row): the WITH CHECK of the policies is
\* tested before the constraints
InsertStatus(caller, tbl, row) ==
  IF ~Permits(caller, tbl, "INSERT", row) THEN "authz"
  ELSE IF ~UniqueOK(tbl, row, db[tbl]) \/ ~ForeignKeysOK(tbl, row)
       THEN "integrity"
       ELSE "ok"

Insert(caller, tbl, row) ==
  LET status == InsertStatus(caller, tbl, row) IN
  /\ db' = IF status = "ok" THEN [db EXCEPT ![tbl] = @ \cup {row}] ELSE db
  /\ response' = [cmd |-> "INSERT", tbl |-> tbl, caller |-> caller,
                  arg |-> row, status |-> status, cascaded |-> {},
                  rows |-> IF status = "ok" THEN {row} ELSE {}]

\* outcome of UPDATE tbl SET payload WHERE <primary key> = key on the row old
UpdateStatus(caller, tbl, old, payload) ==
  LET new == ApplyPayload(old, payload) IN
  IF ~(Permits(caller, tbl, "UPDATE", new) /\ Permits(caller, tbl, "SELECT", new))
  THEN "authz"
  ELSE IF ~UniqueOK(tbl, new, db[tbl] \ {old}) \/ ~ForeignKeysOK(tbl, new)
       THEN "integrity"
       ELSE "ok"

Update(caller, tbl, key, payload) ==
  LET targets == Targets(caller, tbl, "UPDATE", key) IN
  IF targets = {}
  THEN /\ response' = [cmd |-> "UPDATE", tbl |-> tbl, caller |-> caller,
                       arg |-> key, status |-> "ok", cascaded |-> {},
                       rows |-> {}]
       /\ UNCHANGED db
  ELSE \E old \in targets :
         LET status == UpdateStatus(caller, tbl, old, payload)
             new == ApplyPayload(old, payload) IN
         /\ db' = IF status = "ok"
                  THEN [db EXCEPT ![tbl] = (@ \ {old}) \cup {new}]
                  ELSE db
         /\ response' = [cmd |-> "UPDATE", tbl |-> tbl, caller |-> caller,
                         arg |-> key, status |-> status,
                         cascaded |-> {},
                         rows |-> IF status = "ok" THEN {new} ELSE {}]

\* rows of child table fk.tbl that refer to one of the rows gone
Referencing(fk, gone) == {c \in db[fk.tbl] : \E g \in gone : c[fk.col] = g.id}

\* references that are not enforced when the parent goes
DeleteNeverBlocked(tbl, gone) == FALSE

\* ON DELETE NO ACTION: the delete fails while a row still refers to its target
DeleteBlocked(tbl, gone) ==
  \E fk \in ForeignKeys :
    fk.ref = tbl /\ fk.onDelete = "NO ACTION" /\ Referencing(fk, gone) # {}

\* a cascade that stops after the first referencing row
CascadedFirstOnly(t, tbl, gone) ==
  LET all == UNION {Referencing(fk, gone) :
                      fk \in {f \in ForeignKeys :
                                f.ref = tbl /\ f.tbl = t
                                /\ f.onDelete = "CASCADE"}} IN
  IF all = {} THEN {} ELSE {CHOOSE c \in all : TRUE}

\* ON DELETE CASCADE: the rows of t that go with the rows gone from tbl. The
\* referential action runs as the table owner, whatever the caller's policies
\* on the child table; no child table is itself referenced
Cascaded(t, tbl, gone) ==
  UNION {Referencing(fk, gone) :
           fk \in {f \in ForeignKeys :
                     f.ref = tbl /\ f.tbl = t /\ f.onDelete = "CASCADE"}}

\* the database after DELETE FROM tbl has removed the rows gone
AfterDelete(tbl, gone) ==
  [t \in Tables |->
     IF t = tbl THEN db[t] \ gone ELSE db[t] \ Cascaded(t, tbl, gone)]

Delete(caller, tbl, key) ==
  LET targets == Targets(caller, tbl, "DELETE", key)
      status == IF targets # {} /\ DeleteBlocked(tbl, targets)
                THEN "integrity" ELSE "ok" IN
  /\ db' = IF status = "ok" THEN AfterDelete(tbl, targets) ELSE db
  /\ response' = [cmd |-> "DELETE", tbl |-> tbl, caller |-> caller,
                  arg |-> key, status |-> status,
                  cascaded |-> IF status = "ok"
                               THEN UNION {Cascaded(t, tbl, targets) :
                                             t \in Tables \ {tbl}}
                               ELSE {},
                  rows |-> IF status = "ok" THEN targets ELSE {}]

(***************************************************************************)
(* The store                                                               *)
(***************************************************************************)
NoResponse == [cmd |-> "NONE", tbl |-> "NONE", caller |-> "NONE",
               arg |-> {}, status |-> "ok", cascaded |-> {}, rows |-> {}]

InitApp ==
  /\ session = NULL
  /\ currentView = "recipes"
  /\ getSessionCall = [state |-> "called", value |-> NULL]
  /\ notifications = <<>>
  /\ profile = {}
  /\ loading = TRUE
  /\ replies = {}

Init ==
  /\ db = [t \in Tables |-> {}]
  /\ response = NoResponse
  /\ inflight = {}
  /\ committed = <<>>
  /\ providerSession = NULL
  /\ InitApp

\* the inputs of the statements, per table
Filters == [t \in Tables |-> {{}} \cup {{k} : k \in KeySpace(t)}]

Keys == [t \in Tables |-> KeySpace(t)]

Rows == [t \in Tables |-> RowSpace(t)]

PayloadSpace == [t \in Tables |-> Payloads(t)]

\* gen_random_uuid(): an id no row of the table has; which one is immaterial,
\* so the first free one stands for it
FreshIds(tbl) ==
  LET free == {i \in 1..NumIds : \A r \in db[tbl] : r.id # ToString(i)} IN
  {ToString(i) : i \in {j \in free : \A k \in free : j <= k}}

\* the rows a client can send to INSERT: the id column is left to its default
\* where it has one
InsertRows(tbl) ==
  IF GeneratedId(tbl)
  THEN {r \in Rows[tbl] : r.id \in FreshIds(tbl)}
  ELSE Rows[tbl]

\* Statements reach the store from signed-in clients (role authenticated).
\* The table owner's statements stand for the trusted path: it creates
\* profiles and maintains the tag catalog, and it alone can remove a recipe.
Issues(caller, tbl, cmd) ==
  \/ caller \in Users
  \/ cmd = "INSERT" /\ tbl \in {"profiles", "tags"}
  \/ cmd = "DELETE" /\ tbl \in {"tags", "recipes"}

\* each table together with the tables its foreign keys refer to; the model
\* populates one such group at a time
AreasOf(tbls) ==
  {{t} \cup {fk.ref : fk \in {f \in ForeignKeys : f.tbl = t}} : t \in tbls}

Areas == AreasOf(Tables)

InArea(tbls) == \A t \in Tables \ tbls : db[t] = {}

\* the table is in an area whose tables are the only ones in use
Usable(areas, tbl) == \E area \in areas : tbl \in area /\ InArea(area)

SelectStep(areas) ==
  /\ \E tbl \in UNION areas :
       /\ Usable(areas, tbl)
       /\ \E caller \in Callers, filter \in Filters[tbl] :
            Issues(caller, tbl, "SELECT") /\ Select(caller, tbl, filter)
  /\ UNCHANGED <<requestVars, appVars>>

InsertStep(areas) ==
  /\ TotalRows < MaxRows
  /\ \E tbl \in UNION areas :
       /\ Usable(areas, tbl)
       /\ \E row \in InsertRows(tbl), caller \in Callers :
            Issues(caller, tbl, "INSERT") /\ Insert(caller, tbl, row)
  /\ UNCHANGED <<requestVars, appVars>>

UpdateStep(areas) ==
  /\ \E tbl \in UNION areas :
       /\ Usable(areas, tbl)
       /\ \E caller \in Callers, key \in Keys[tbl],
             payload \in PayloadSpace[tbl] :
            Issues(caller, tbl, "UPDATE") /\ Update(caller, tbl, key, payload)
  /\ UNCHANGED <<requestVars, appVars>>

DeleteStep(areas) ==
  /\ \E tbl \in UNION areas :
       /\ Usable(areas, tbl)
       /\ \E caller \in Callers, key \in Keys[tbl] :
            Issues(caller, tbl, "DELETE") /\ Delete(caller, tbl, key)
  /\ UNCHANGED <<requestVars, appVars>>

\* a statement on a table of one of the areas, the others being empty
StoreNext(areas) ==
  \/ SelectStep(areas)
  \/ InsertStep(areas)
  \/ UpdateStep(areas)
  \/ DeleteStep(areas)

Next == StoreNext(Areas)

\* the whole store
Spec == Init /\ [][Next]_vars

\* the store with only some of its tables in use
SpecRecipes == Init /\ [][StoreNext(AreasOf({"recipes"}))]_vars

SpecIngredients == Init /\ [][StoreNext(AreasOf({"recipe_ingredients"}))]_vars

SpecMealPlans == Init /\ [][StoreNext(AreasOf({"meal_plan_items"}))]_vars

SpecDefaultDeny ==
  Init /\ [][StoreNext(AreasOf({"profiles", "tags", "recipes"}))]_vars

SpecReferences ==
  Init /\ [][StoreNext(AreasOf({"meal_plan_items", "shopping_lists"}))]_vars

(***************************************************************************)
(* Concurrent UPDATEs of one shopping list item.  Clients send their       *)
(* requests independently; the store runs each UPDATE as one transaction   *)
(* on the row as the previously committed transaction left it.             *)
(***************************************************************************)
\* a shopping list of u1 holding one item
InitUpdates ==
  /\ db \in {[t \in Tables |->
               CASE t = "shopping_lists" ->
                      {[id |-> "1", user_id |-> "u1", meal_plan_id |-> NULL]}
                 [] t = "shopping_list_items" -> {item}
                 [] OTHER -> {}] :
             item \in {r \in RowSpace("shopping_list_items") :
                         r.id = "1" /\ r.shopping_list_id = "1"}}
  /\ response = NoResponse
  /\ inflight = {}
  /\ committed = <<>>
  /\ providerSession = NULL
  /\ InitApp

\* a client sends .from('shopping_list_items').update(payload).eq('id', ...)
\* for an item that is there; sent records how many commits preceded it
SendUpdate(caller, key, payload) ==
  /\ Cardinality(inflight) + Len(committed) < MaxRequests
  /\ \E r \in db["shopping_list_items"] :
       Key("shopping_list_items", r) = key
  /\ inflight' = inflight \cup
       {[id |-> Cardinality(inflight) + Len(committed) + 1,
         caller |-> caller, key |-> key, payload |-> payload,
         sent |-> Len(committed)]}
  /\ UNCHANGED <<storeVars, committed, appVars>>

\* the store runs one of the requests in flight as a transaction
CommitUpdate(req) ==
  /\ Update(req.caller, "shopping_list_items", req.key, req.payload)
  /\ inflight' = inflight \ {req}
  /\ committed' = Append(committed,
                         [req |-> req,
                          before |-> db["shopping_list_items"],
                          status |-> response'.status,
                          rows |-> response'.rows])
  /\ UNCHANGED appVars

UpdatesNext ==
  \/ \E caller \in Users, key \in Keys["shopping_list_items"],
        payload \in PayloadSpace["shopping_list_items"] :
       SendUpdate(caller, key, payload)
  \/ \E req \in inflight : CommitUpdate(req)

SpecUpdates == InitUpdates /\ [][UpdatesNext]_vars

(***************************************************************************)
(* App.tsx: the session state, fed by the promise of getSession() and by   *)
(* the onAuthStateChange subscription, two callbacks that nothing orders.  *)
(***************************************************************************)
\* at mount the identity provider holds a persisted session, or none
InitSessions ==
  /\ db = [t \in Tables |-> {}]
  /\ response = NoResponse
  /\ inflight = {}
  /\ committed = <<>>
  /\ providerSession \in Users \cup {NULL}
  /\ InitApp

\* supabase.auth.getSession() reads the provider's current session
GetSessionResolve ==
  /\ getSessionCall.state = "called"
  /\ getSessionCall' = [state |-> "resolved", value |-> providerSession]
  /\ UNCHANGED <<providerSession, session, currentView, notifications>>
  /\ UNCHANGED <<storeVars, requestVars, profileVars>>

\* .then(({ data: { session } }) => setSession(session))
GetSessionThen ==
  /\ getSessionCall.state = "resolved"
  /\ session' = getSessionCall.value
  /\ getSessionCall' = [getSessionCall EXCEPT !.state = "delivered"]
  /\ UNCHANGED <<providerSession, currentView, notifications>>
  /\ UNCHANGED <<storeVars, requestVars, profileVars>>

\* the provider changes its session and notifies the subscriber
AuthStateChange(new) ==
  /\ Len(notifications) < MaxEvents
  /\ providerSession' = new
  /\ notifications' = Append(notifications, new)
  /\ UNCHANGED <<session, currentView, getSessionCall>>
  /\ UNCHANGED <<storeVars, requestVars, profileVars>>

\* a sign-in, through the Auth component or elsewhere
SignIn(user) == providerSession = NULL /\ AuthStateChange(user)

\* the session expires or is revoked
SessionExpiry == providerSession # NULL /\ AuthStateChange(NULL)

\* the Sign out button, rendered with the data views only
SignOutClick == session # NULL /\ AuthStateChange(NULL)

\* onAuthStateChange((_event, session) => setSession(session))
Notify ==
  /\ notifications # <<>>
  /\ session' = Head(notifications)
  /\ notifications' = Tail(notifications)
  /\ UNCHANGED <<providerSession, currentView, getSessionCall>>
  /\ UNCHANGED <<storeVars, requestVars, profileVars>>

\* the Recipes and Profile buttons of the navigation bar
SetCurrentView(view) ==
  /\ session # NULL
  /\ currentView' = view
  /\ UNCHANGED <<providerSession, session, getSessionCall, notifications>>
  /\ UNCHANGED <<storeVars, requestVars, profileVars>>

\* what App renders
View ==
  IF session = NULL THEN "Auth"
  ELSE IF currentView = "recipes" THEN "RecipeList" ELSE "UserProfile"

SessionsNext ==
  \/ GetSessionResolve
  \/ GetSessionThen
  \/ \E user \in Users : SignIn(user)
  \/ SessionExpiry
  \/ SignOutClick
  \/ Notify
  \/ \E view \in {"recipes", "profile"} : SetCurrentView(view)

SpecSessions == InitSessions /\ [][SessionsNext]_vars

(***************************************************************************)
(* UserProfile.tsx: the local profile, loaded by getProfile() at mount and *)
(* patched by updateProfile() when the store answers.  Every call is a     *)
(* request of its own: the store runs them in some order and the answers   *)
(* reach the component in some order.                                      *)
(***************************************************************************)
\* the columns getProfile selects
ProfileCols == {"username", "full_name"}

\* UserProfile is mounted for the signed-in user and has called getProfile();
\* the trusted path has created some profiles
InitProfile ==
  /\ db \in {[t \in Tables |-> IF t = "profiles" THEN rows ELSE {}] :
             rows \in {rs \in SUBSET RowSpace("profiles") :
                         \A r \in rs : UniqueOK("profiles", r, rs \ {r})}}
  /\ response = NoResponse
  /\ committed = <<>>
  /\ providerSession \in Users
  /\ session = providerSession
  /\ currentView = "profile"
  /\ getSessionCall = [state |-> "delivered", value |-> providerSession]
  /\ notifications = <<>>
  /\ profile = {}
  /\ loading = TRUE
  /\ inflight = {[id |-> 0, op |-> "getProfile", caller |-> session,
                  key |-> [id |-> session], payload |-> <<>>]}
  /\ replies = {}

\* onChange={(e) => updateProfile({ ... })}: the form is rendered once
\* loading is false; the call sends .update(updates).eq('id', user.id)
UpdateProfileCall(updates) ==
  /\ ~loading
  /\ Cardinality(inflight) + Len(committed) < MaxRequests
  /\ inflight' = inflight \cup
       {[id |-> Cardinality(inflight) + Len(committed) + 1,
         op |-> "updateProfile", caller |-> session,
         key |-> [id |-> session], payload |-> updates]}
  /\ UNCHANGED <<storeVars, committed, appVars>>

\* the store runs the SELECT of getProfile; .single() is an error unless
\* exactly one row comes back
GetProfileRun(req) ==
  /\ req.op = "getProfile"
  /\ Select(req.caller, "profiles", {req.key})
  /\ inflight' = inflight \ {req}
  /\ replies' = replies \cup
       {[id |-> req.id, op |-> req.op, payload |-> req.payload,
         error |-> Cardinality(response'.rows) # 1,
         data |-> {Restrict(r, ProfileCols) : r \in response'.rows}]}
  /\ UNCHANGED <<committed, providerSession, session, currentView,
                 getSessionCall, notifications, profile, loading>>

\* the store runs the UPDATE of an updateProfile call
UpdateProfileRun(req) ==
  /\ req.op = "updateProfile"
  /\ Update(req.caller, "profiles", req.key, req.payload)
  /\ inflight' = inflight \ {req}
  /\ committed' = Append(committed, [req |-> req,
                                     status |-> response'.status,
                                     rows |-> response'.rows])
  /\ replies' = replies \cup
       {[id |-> req.id, op |-> req.op, payload |-> req.payload,
         error |-> response'.status # "ok", data |-> {}]}
  /\ UNCHANGED <<providerSession, session, currentView, getSessionCall,
                 notifications, profile, loading>>

\* getProfile resumes after its await: if (error) throw error;
\* setProfile(data); finally setLoading(false)
GetProfileReturn(reply) ==
  /\ reply.op = "getProfile"
  /\ replies' = replies \ {reply}
  /\ profile' = IF reply.error THEN profile ELSE reply.data
  /\ loading' = FALSE
  /\ UNCHANGED <<storeVars, requestVars, providerSession, session,
                 currentView, getSessionCall, notifications>>

\* updateProfile resumes after its await: if (error) throw error;
\* setProfile(prev => prev ? { ...prev, ...updates } : null)
UpdateProfileReturn(reply) ==
  /\ reply.op = "updateProfile"
  /\ replies' = replies \ {reply}
  /\ profile' = IF reply.error THEN profile
                ELSE {ApplyPayload(prev, reply.payload) : prev \in profile}
  /\ UNCHANGED <<storeVars, requestVars, providerSession, session,
                 currentView, getSessionCall, notifications, loading>>

ProfileNext ==
  \/ \E updates \in PayloadSpace["profiles"] : UpdateProfileCall(updates)
  \/ \E req \in inflight : GetProfileRun(req)
  \/ \E req \in inflight : UpdateProfileRun(req)
  \/ \E reply \in replies : GetProfileReturn(reply)
  \/ \E reply \in replies : UpdateProfileReturn(reply)

SpecProfile == InitProfile /\ [][ProfileNext]_vars

(***************************************************************************)
(* Properties                                                              *)
(***************************************************************************)
\* the last statement was cmd on tbl, sent by a signed-in user
UserStatement(r, cmd, tbl) ==
  r.cmd = cmd /\ r.tbl = tbl /\ r.caller \in Users

\* C1: a SELECT on recipes by a signed-in user, a listing (no filter) or a
\* lookup by id alike, never returns a row that is not public and belongs to
\* somebody else.
C1_PrivateRecipeNeverReturned ==
  UserStatement(response, "SELECT", "recipes") =>
    \A r \in db["recipes"] :
      (r.is_public = FALSE /\ r.user_id # response.caller) =>
        r \notin response.rows

\* a user listed the recipes, and looked one up by id, while the table held
\* another user's private recipe: the response has rows, but not that one
C1_Witness ==
  /\ UserStatement(response, "SELECT", "recipes")
  /\ response.rows # {}
  /\ \E r \in db["recipes"] :
       /\ r.is_public = FALSE
       /\ r.user_id \in Users \ {response.caller}
       /\ r \notin response.rows

\* C2: a public recipe is returned to every signed-in user who selects it,
\* and an UPDATE or DELETE sent by a user who is not its owner leaves the
\* row in the table as it is.
C2_PublicRecipeReadableOwnerWrites ==
  [][ /\ UserStatement(response', "SELECT", "recipes") =>
          \A r \in db["recipes"] :
            ( /\ r.is_public = TRUE
              /\ response'.arg \in {{}, {Key("recipes", r)}} ) =>
              r \in response'.rows
      /\ ( \/ UserStatement(response', "UPDATE", "recipes")
           \/ UserStatement(response', "DELETE", "recipes") ) =>
          \A r \in db["recipes"] :
            (r.is_public = TRUE /\ r.user_id # response'.caller) =>
              r \in db'["recipes"] ]_vars

\* a user sent an UPDATE for another user's public recipe: no row was
\* affected and the recipe is still there
C2_Witness ==
  /\ UserStatement(response, "UPDATE", "recipes")
  /\ response.rows = {}
  /\ \E r \in db["recipes"] :
       /\ Key("recipes", r) = response.arg
       /\ r.is_public = TRUE
       /\ r.user_id \in Users \ {response.caller}

\* C3: an INSERT into recipes by a signed-in user whose row names another
\* owner (or none) is rejected by the policy and leaves the store as it was;
\* an INSERT that is accepted has user_id equal to the caller.
C3_InsertRecipeOnlyAsOneself ==
  [][ UserStatement(response', "INSERT", "recipes") =>
        /\ response'.arg.user_id # response'.caller =>
             (response'.status = "authz" /\ db' = db)
        /\ response'.status = "ok" =>
             ( /\ response'.arg.user_id = response'.caller
               /\ db'["recipes"] = db["recipes"] \cup {response'.arg} ) ]_vars

\* a user tried to insert a recipe in another user's name and was refused
C3_Witness ==
  /\ UserStatement(response, "INSERT", "recipes")
  /\ response.arg.user_id \in Users \ {response.caller}
  /\ response.status = "authz"
  /\ response.arg \notin db["recipes"]

\* C4: an INSERT into recipe_ingredients by a signed-in user succeeds only
\* when that user owns the parent recipe; otherwise it fails with the policy
\* violation (not a constraint violation) and adds no row, also when the
\* parent exists and is public.
C4_IngredientInsertNeedsOwnedParent ==
  [][ UserStatement(response', "INSERT", "recipe_ingredients") =>
        IF OwnsRecipe(response'.arg.recipe_id, response'.caller)
        THEN response'.status # "authz"
        ELSE response'.status = "authz" /\ db' = db ]_vars

\* a user who can read the ingredients of another user's public recipe tried
\* to add an ingredient to it and got the policy violation
C4_Witness ==
  /\ UserStatement(response, "INSERT", "recipe_ingredients")
  /\ response.status = "authz"
  /\ \E r \in db["recipes"] :
       /\ r.id = response.arg.recipe_id
       /\ r.is_public = TRUE
       /\ r.user_id \in Users \ {response.caller}
       /\ \E i \in Visible(response.caller, "recipe_ingredients") :
            i.recipe_id = r.id

\* C5: no meal_plan_items row ever refers to a meal plan that is not in
\* meal_plans, and the step that deletes a plan removes exactly the items
\* that referred to it.
C5_NoItemOfDeletedPlan ==
  /\ \A i \in db["meal_plan_items"] :
       \E p \in db["meal_plans"] : p.id = i.meal_plan_id
  /\ ( /\ response.cmd = "DELETE"
       /\ response.tbl = "meal_plans"
       /\ response.status = "ok" ) =>
       \A g \in response.rows :
         /\ g \notin db["meal_plans"]
         /\ \A i \in db["meal_plan_items"] : i.meal_plan_id # g.id
         /\ \A c \in response.cascaded : c.meal_plan_id = g.id

\* a plan with two items was deleted by its owner: both items went with it,
\* in that one step
C5_Witness ==
  /\ UserStatement(response, "DELETE", "meal_plans")
  /\ response.status = "ok"
  /\ response.rows # {}
  /\ Cardinality(response.cascaded) = 2
  /\ \A c \in response.cascaded : c \notin db["meal_plan_items"]

\* the committed UPDATE changed a row
Applied(e) == e.status = "ok" /\ e.rows # {}

\* the last committed UPDATE that changed the row and whose payload has
\* column c (0 when there is none)
LastWriter(c) ==
  LET ws == {i \in 1..Len(committed) :
               Applied(committed[i]) /\ c \in DOMAIN committed[i].req.payload}
  IN IF ws = {} THEN 0 ELSE CHOOSE i \in ws : \A j \in ws : j <= i

\* the UPDATE leaves the item in a list of the caller
StaysInOwnList(req) ==
  "shopping_list_id" \in DOMAIN req.payload =>
    OwnsShoppingList(req.payload.shopping_list_id, AuthUid(req.caller))

C7_DefaultDeny ==
  [][ /\ ( /\ response'.caller \in Users
           /\ \/ <<response'.tbl, response'.cmd>> \in
                   {<<"tags", "INSERT">>, <<"tags", "UPDATE">>,
                    <<"tags", "DELETE">>, <<"profiles", "INSERT">>,
                    <<"profiles", "DELETE">>, <<"recipes", "DELETE">>}
              \/ /\ response'.tbl \in Tables
                 /\ PoliciesFor(response'.tbl, response'.cmd) = {} ) =>
          /\ db' = db
          /\ response'.rows = {}
          /\ response'.cmd = "INSERT" => response'.status = "authz"
      /\ ( /\ UserStatement(response', "SELECT", "tags")
           /\ response'.arg = {} ) =>
          response'.rows = db["tags"] ]_vars

\* the owner of a recipe sent a DELETE for it: no row was affected and the
\* recipe is still there
C7_Witness ==
  /\ UserStatement(response, "DELETE", "recipes")
  /\ response.rows = {}
  /\ \E r \in db["recipes"] :
       Key("recipes", r) = response.arg /\ r.user_id = response.caller

\* the identity that owns a row: its own owner column, or the owner of the
\* parent row it refers to (NULL when there is none)
ParentOwner(tbl, id) ==
  LET ps == {p \in db[tbl] : p.id = id} IN
  IF ps = {} THEN NULL ELSE (CHOOSE p \in ps : TRUE).user_id

OwnerOf(tbl, row) ==
  CASE tbl = "profiles" -> row.id
    [] tbl \in {"recipes", "meal_plans", "shopping_lists"} -> row.user_id
    [] tbl \in {"recipe_ingredients", "recipe_tags"} ->
         ParentOwner("recipes", row.recipe_id)
    [] tbl = "meal_plan_items" -> ParentOwner("meal_plans", row.meal_plan_id)
    [] tbl = "shopping_list_items" ->
         ParentOwner("shopping_lists", row.shopping_list_id)

\* the row is a recipe whose public flag is set, or a dependent of one
OfPublicRecipe(tbl, row) ==
  CASE tbl = "recipes" -> row.is_public = TRUE
    [] tbl \in {"recipe_ingredients", "recipe_tags"} ->
         \E r \in db["recipes"] : r.id = row.recipe_id /\ r.is_public = TRUE
    [] OTHER -> FALSE

OwnedTables == Tables \ {"tags"}

\* what a statement of a signed-in user may touch, given the tables whose
\* rows are readable under the public flag, and those readable by anyone:
\* rows it returns are the caller's, or readable by that exception; rows it
\* adds, changes or removes (cascades included) are the caller's, ownership
\* being looked up in the parent table as it is when the statement runs
OwnerGated(publicReadable, openReadable) ==
  ( /\ response'.caller \in Users
    /\ response'.tbl \in OwnedTables ) =>
    LET c == response'.caller
        t == response'.tbl IN
    /\ response'.cmd = "SELECT" =>
         \A r \in response'.rows :
           \/ OwnerOf(t, r) = c
           \/ t \in publicReadable /\ OfPublicRecipe(t, r)
           \/ t \in openReadable
    /\ \A t2 \in OwnedTables :
         \A r \in (db[t2] \ db'[t2]) \cup (db'[t2] \ db[t2]) :
           OwnerOf(t2, r) = c

\* C8 as stated: the only rows a user reads without owning them are recipes
\* and their dependents (recipe_ingredients, recipe_tags) while the recipe
\* is public.
C8_Original ==
  [][OwnerGated({"recipes", "recipe_ingredients", "recipe_tags"}, {})]_vars

\* C8, amended: rows of recipe_tags are readable by every signed-in user,
\* whatever the recipe's public flag; everything else is as stated.
C8_OwnerGatedAccess ==
  [][OwnerGated({"recipes", "recipe_ingredients"}, {"recipe_tags"})]_vars

\* a user listed recipe_ingredients while the table held an ingredient of
\* another user's private recipe, and did not get it
C8_Witness ==
  /\ UserStatement(response, "SELECT", "recipe_ingredients")
  /\ response.arg = {}
  /\ \E i \in db["recipe_ingredients"] :
       /\ OwnerOf("recipe_ingredients", i) \in Users \ {response.caller}
       /\ ~OfPublicRecipe("recipe_ingredients", i)
       /\ i \notin response.rows

\* no meal_plan_items.recipe_id and no shopping_lists.meal_plan_id dangles
NoDanglingReference ==
  /\ \A i \in db["meal_plan_items"] :
       i.recipe_id = NULL \/ \E r \in db["recipes"] : r.id = i.recipe_id
  /\ \A l \in db["shopping_lists"] :
       l.meal_plan_id = NULL
       \/ \E p \in db["meal_plans"] : p.id = l.meal_plan_id

\* the rows that refer to one of the rows gone through a foreign key that
\* has no ON DELETE CASCADE
Referrers(tbl, gone) ==
  IF tbl = "recipes"
  THEN {i \in db["meal_plan_items"] : \E g \in gone : i.recipe_id = g.id}
  ELSE {l \in db["shopping_lists"] : \E g \in gone : l.meal_plan_id = g.id}

\* the parent/child pairs with ON DELETE CASCADE
CascadePairs ==
  {<<"recipes", "recipe_ingredients">>, <<"recipes", "recipe_tags">>,
   <<"tags", "recipe_tags">>, <<"meal_plans", "meal_plan_items">>,
   <<"shopping_lists", "shopping_list_items">>}

\* C9 as stated: a DELETE of a recipe or meal plan that the caller may
\* delete succeeds whether or not a meal_plan_items / shopping_lists row
\* refers to it, and leaves those rows as they are.
C9_Original ==
  [][ ( /\ response'.cmd = "DELETE"
        /\ response'.tbl \in {"recipes", "meal_plans"}
        /\ Targets(response'.caller, response'.tbl, "DELETE",
                   response'.arg) # {} ) =>
        LET t == response'.tbl
            targets == Targets(response'.caller, t, "DELETE", response'.arg)
        IN
        /\ response'.status = "ok"
        /\ db'[t] = db[t] \ targets
        /\ db'["shopping_lists"] = db["shopping_lists"]
        /\ t = "recipes" => db'["meal_plan_items"] = db["meal_plan_items"]
    ]_vars

\* C9, amended: a DELETE changes, besides its own table, only the tables
\* that refer to it with ON DELETE CASCADE; a DELETE of a recipe that a
\* meal_plan_items row refers to, or of a meal plan that a shopping_lists
\* row refers to, fails with a constraint violation and changes nothing,
\* and succeeds once no such row refers to it: no reference ever dangles.
C9_ReferencedParentsStay ==
  [][ /\ NoDanglingReference'
      /\ response'.cmd = "DELETE" =>
           \A t2 \in Tables \ {response'.tbl} :
             db'[t2] # db[t2] => <<response'.tbl, t2>> \in CascadePairs
      /\ ( /\ response'.cmd = "DELETE"
           /\ response'.tbl \in {"recipes", "meal_plans"}
           /\ Targets(response'.caller, response'.tbl, "DELETE",
                      response'.arg) # {} ) =>
           LET t == response'.tbl
               targets ==
                 Targets(response'.caller, t, "DELETE", response'.arg)
           IN
           IF Referrers(t, targets) # {}
           THEN response'.status = "integrity" /\ db' = db
           ELSE response'.status = "ok" /\ db'[t] = db[t] \ targets
    ]_vars

\* the owner of a meal plan sent a DELETE for it while a shopping list
\* referred to it: constraint violation, the plan and the list are still there
C9_Witness ==
  /\ UserStatement(response, "DELETE", "meal_plans")
  /\ response.status = "integrity"
  /\ \E p \in db["meal_plans"] :
       /\ Key("meal_plans", p) = response.arg
       /\ p.user_id = response.caller
       /\ \E l \in db["shopping_lists"] : l.meal_plan_id = p.id

\* C10: once the getSession() callback and every notification have been
\* delivered, App's session is the provider's session, so with no session
\* at the provider App shows Auth; RecipeList and UserProfile are rendered
\* only while App's session is not null.
C10_SessionTracksProvider ==
  /\ ( getSessionCall.state = "delivered" /\ notifications = <<>> ) =>
       /\ session = providerSession
       /\ providerSession = NULL => View = "Auth"
  /\ View \in {"RecipeList", "UserProfile"} => session # NULL

\* the local profile holds what the stored row of the user holds (and is
\* null when there is no such row)
MirrorsStoredRow ==
  LET mine == {r \in db["profiles"] : r.id = session} IN
  profile = {Restrict(r, ProfileCols) : r \in mine}

\* C11: updateProfile changes the local profile only when the answer it
\* got from the store carries no error, and once every call has been run
\* and answered, in whatever order, the local profile equals the stored
\* row of the user field by field.
C11_LocalProfileMirrorsStore ==
  [][ /\ ( profile' # profile /\ ~loading ) =>
           \E reply \in replies \ replies' :
             reply.op = "updateProfile" /\ ~reply.error
      /\ ( inflight' = {} /\ replies' = {} ) => MirrorsStoredRow'
    ]_vars
====
